---- MODULE Spec2Model ----
(***************************************************************************)
(* State-machine model of MCECompoundScraper (src/mce_scraper.py): the     *)
(* retry loop of fetch_page, the throttle check, scrape_page, the page     *)
(* loop of scrape_multiple_pages and the record filter of parse_compounds. *)
(* One action per step of the single thread of control; the network, the   *)
(* clock, the random source, the file system and the keyboard are inputs   *)
(* drawn with \E.                                                          *)
(***************************************************************************)
EXTENDS Integers, Sequences, FiniteSets, TLC

\* ------------------------------------------------------------------ bounds
\* Largest max_retries a session is constructed with.
MaxRetries == 2
\* Largest page number used as start_page / end_page / page_num.
MaxPage == 2
\* Top-level calls made on one scraper instance.
MaxCalls == 2
\* Largest clock reading (seconds since start_time) fed to the throttle check.
MaxElapsed == 3
\* delay_range is (MinDelay, MinDelay + s) for s in 0..MaxDelaySpan.
MaxDelaySpan == 1
\* Largest number of <li> items of a page handed to parse_compounds alone.
MaxItems == 2

\* ------------------------------------------------------- program constants
\* delay_range[0] of the constructor's default (3, 6).
MinDelay == 3
\* time.sleep(2) of the throttle.
ThrottlePause == 2
\* The 429 wait is 60 * (attempt + 1).
Wait429 == 60
\* The timeout wait and the generic request-error wait are 5 * (attempt + 1).
WaitTimeout == 5
WaitRequestError == 5
\* The connection-error wait is 10 * (attempt + 1).
WaitConnection == 10
\* len(compound_data) > 2
MinFieldsExclusive == 2

VARIABLES
    max_retries,     \* self.max_retries
    delay_range,     \* self.delay_range, <<min, max>>
    request_count,   \* self.request_count
    calls,           \* top-level calls made so far on this instance
    tracing,         \* whether the attempts of fetch_page are logged (outcomes, backoffs)
    op,              \* the top-level call in progress: "none" or a method name
    pc,              \* position of the thread of control
    raised,          \* exception that left the top-level call ("none" if none)
    \* fetch_page frame
    attempt,         \* loop variable of `for attempt in range(self.max_retries)`
    outcomes,        \* outcome of each session.get of this fetch_page call
    backoffs,        \* <<attempt number, seconds>> of each backoff sleep of this call
    wait_time,       \* seconds of the backoff sleep in progress (0: none)
    elapsed_time,    \* elapsed_time read by the last _check_rate_limit
    throttle_sleep,  \* seconds slept by the last _check_rate_limit (0 or 2)
    entry_count,     \* request_count when this fetch_page call was entered
    fetch_result,    \* "none" | "Success" | "Forbidden" | "Exhausted"
    html,            \* value returned by fetch_page
    \* scrape_page frame
    page_num,        \* page being processed
    compounds,       \* value returned by scrape_page
    \* scrape_multiple_pages frame
    start_page, end_page,
    all_compounds,   \* the accumulated list
    delay_count,     \* _random_delay calls of this scrape_multiple_pages call
    delay,           \* the last delay drawn by _random_delay (0: none yet)
    interrupted,     \* "no", or the position at which the page loop caught KeyboardInterrupt
    \* per-call record of what happened to each page
    visited,         \* pages scrape_page was invoked for, in order
    page_status,     \* page -> "none" | "ok" | "no_html" | "raised" | "interrupted"
    page_html,       \* page -> body a successful fetch returned for it (None if none)
    written,         \* page -> body written to page_<n>_raw.html (None if none)
    parsed,          \* pages whose body was handed to parse_compounds
    requested,       \* pages a GET was sent for
    \* a direct call of parse_compounds
    parse_html,      \* its argument
    parse_result     \* its return value

fetch_vars == <<attempt, outcomes, backoffs, wait_time, elapsed_time,
                throttle_sleep, entry_count, fetch_result, html>>
page_vars == <<page_num, compounds, visited, page_status, page_html, written, parsed,
               requested>>
multi_vars == <<start_page, end_page, all_compounds, delay_count, delay, interrupted>>
parse_vars == <<parse_html, parse_result>>
config_vars == <<max_retries, delay_range, tracing>>
vars == <<max_retries, delay_range, tracing, request_count, calls, op, pc, raised,
          attempt, outcomes, backoffs, wait_time, elapsed_time, throttle_sleep,
          entry_count, fetch_result, html, page_num, compounds, start_page,
          end_page, all_compounds, delay_count, delay, interrupted, visited,
          page_status, page_html, written, parsed, requested, parse_html,
          parse_result>>

Pages == 1..MaxPage

\* --------------------------------------------------------------- page bodies
\* A Python str-or-None value holding a page: None, the empty string, or markup
\* with or without the <ul class="sub_ctg_list_con"> container and its <li> items.
None == [type |-> "NoneType", empty |-> TRUE, list |-> FALSE, items |-> <<>>]
EmptyHtml == [type |-> "str", empty |-> TRUE, list |-> FALSE, items |-> <<>>]
NoListHtml == [type |-> "str", empty |-> FALSE, list |-> FALSE, items |-> <<>>]
ListHtml(its) == [type |-> "str", empty |-> FALSE, list |-> TRUE, items |-> its]

\* Variant: the test is missing.
Falsy_never(h) == FALSE

\* Variant: `if html is None`.
Falsy_none_only(h) == h.type = "NoneType"

\* Python truthiness of `html` in `if not html`.
Falsy(h) == h.type = "NoneType" \/ h.empty

\* One <li> item, by the tags the parser looks for.
\*   cat: the dt.dnr_pro_list_cat tag, its <a> and whether href starts with "/"
\*   name_tag/strong/cn: th.dnr_pro_list_name, its <strong>, its p#list-name-cn and <a>
\*   cas/purity/brief: the tag and whether its stripped text is non-empty
\*   structure: dt.dnr_pro_list_structure and its <img>
CatShapes == {"absent", "no_link", "link_rel", "link_other"}
CnShapes == {"absent", "no_link", "link"}
TextShapes == {"absent", "empty", "text"}
ImgShapes == {"absent", "no_img", "img"}
Items ==
    { it \in [cat : CatShapes, name_tag : BOOLEAN, strong : BOOLEAN, cn : CnShapes,
              cas : TextShapes, purity : TextShapes, brief : TextShapes,
              structure : ImgShapes] :
        (~it.name_tag) => (~it.strong /\ it.cn = "absent") }

\* compound_data as built by the loop body: the set of keys present.
compound_data(item) ==
    (IF item.cat \in {"link_rel", "link_other"} THEN {"catalog_no"} ELSE {})
    \cup (IF item.cat = "link_rel" THEN {"url"} ELSE {})
    \cup (IF item.name_tag /\ item.strong THEN {"name_en"} ELSE {})
    \cup (IF item.name_tag /\ item.cn = "link" THEN {"name_cn"} ELSE {})
    \cup (IF item.cas = "text" THEN {"cas_no"} ELSE {})
    \cup (IF item.purity = "text" THEN {"purity"} ELSE {})
    \cup (IF item.brief = "text" THEN {"description"} ELSE {})
    \cup (IF item.structure = "img" THEN {"structure_image"} ELSE {})

\* Variant: the floor is one field higher.
keeps_more_than_three(item) == Cardinality(compound_data(item)) > MinFieldsExclusive + 1

\* `if len(compound_data) > 2: compounds.append(compound_data)`
keeps(item) == Cardinality(compound_data(item)) > MinFieldsExclusive

RECURSIVE parse_items(_)
parse_items(its) ==
    IF its = <<>> THEN <<>>
    ELSE (IF keeps(Head(its)) THEN <<compound_data(Head(its))>> ELSE <<>>)
         \o parse_items(Tail(its))

parse_compounds(h) ==
    IF Falsy(h) THEN <<>>
    ELSE IF ~h.list THEN <<>>
    ELSE parse_items(h.items)

\* Items used to build pages.
FullItem == [cat |-> "link_rel", name_tag |-> TRUE, strong |-> TRUE, cn |-> "link",
             cas |-> "text", purity |-> "text", brief |-> "text", structure |-> "img"]
ThreeFieldItem == [cat |-> "link_rel", name_tag |-> TRUE, strong |-> TRUE, cn |-> "absent",
                   cas |-> "empty", purity |-> "absent", brief |-> "absent",
                   structure |-> "no_img"]
TwoFieldItem == [cat |-> "link_rel", name_tag |-> TRUE, strong |-> FALSE, cn |-> "no_link",
                 cas |-> "absent", purity |-> "empty", brief |-> "absent",
                 structure |-> "absent"]
FourFieldItem == [cat |-> "link_other", name_tag |-> TRUE, strong |-> TRUE, cn |-> "link",
                  cas |-> "text", purity |-> "absent", brief |-> "empty",
                  structure |-> "absent"]
EmptyItem == [cat |-> "absent", name_tag |-> FALSE, strong |-> FALSE, cn |-> "absent",
              cas |-> "absent", purity |-> "absent", brief |-> "absent",
              structure |-> "absent"]
SampleItems == {FullItem, ThreeFieldItem, TwoFieldItem, FourFieldItem, EmptyItem}

\* Bodies the server may return for page p: an empty body, or a page with items
\* (page p carries p + 2 items, so that the order of concatenation shows).
RECURSIVE PageItems(_)
PageItems(p) ==
    IF p = 0 THEN <<TwoFieldItem, ThreeFieldItem>>
    ELSE Append(PageItems(p - 1), IF p % 2 = 1 THEN FullItem ELSE FourFieldItem)
PageDoc(p) == ListHtml(PageItems(p))
Bodies(p) == {EmptyHtml, PageDoc(p)}

\* ------------------------------------------------------- session.get outcomes
\* response.status_code values: 200, a 1xx, a 2xx other than 200, a 3xx, 403,
\* another 4xx, 429, a 5xx.
StatusCodes == {101, 200, 204, 304, 403, 404, 429, 500}
\* Exceptions session.get raises: requests.exceptions.Timeout, ConnectTimeout
\* (a subclass of both ConnectionError and Timeout), ConnectionError, and any
\* other requests.RequestException.
GetExceptions == {"Timeout", "ConnectTimeout", "ConnectionError", "RequestException"}

Response(s, b) == [exc |-> "none", status |-> s, body |-> b]
Raises(e) == [exc |-> e, status |-> 0, body |-> None]
\* What one session.get for page p can do.
GetOutcomes(p) ==
    { Response(200, b) : b \in Bodies(p) }
    \cup { Response(s, None) : s \in StatusCodes \ {200} }
    \cup { Raises(e) : e \in GetExceptions }

\* Variant: every status outside 2xx raises.
raise_for_status_outside_2xx(status) == status < 200 \/ status >= 300

\* requests' Response.raise_for_status raises HTTPError for 4xx and 5xx only.
raise_for_status(status) == status >= 400 /\ status < 600

\* Variant: the ceiling is one request per second.
rate_exceeded_one_per_second(count, elapsed) == count > elapsed

\* `rate = self.request_count / elapsed_time; if rate > 0.5` (elapsed_time > 0)
rate_exceeded(count, elapsed) == 2 * count > elapsed

\* seconds slept by _check_rate_limit for a clock reading
check_rate_limit_sleep(count, elapsed) ==
    IF elapsed > 0 /\ rate_exceeded(count, elapsed) THEN ThrottlePause ELSE 0

\* Variant: the increment is written before the GET.
counted_always(o) == TRUE

\* Whether line 105 is reached for outcome o of session.get: only when the call
\* returned a response; an exception raised by the GET skips it.
counted(o) == o.exc = "none"

\* Variant: `-=` written for `+=`.
count_request_decrements(count) == count - 1

\* Variant: the increment is left out.
count_request_forgotten(count) == count

\* `self.request_count += 1`
count_request(count) == count + 1

\* Variant: the wait uses the zero-based loop variable.
wait_429_zero_based(a) == Wait429 * a

\* wait_time = 60 * (attempt + 1)
wait_429(a) == Wait429 * (a + 1)
\* `if attempt < self.max_retries - 1: time.sleep(k * (attempt + 1))`, 0: no sleep
wait_timeout(a, mr) == IF a < mr - 1 THEN WaitTimeout * (a + 1) ELSE 0
wait_connection(a, mr) == IF a < mr - 1 THEN WaitConnection * (a + 1) ELSE 0
wait_request_error(a, mr) == IF a < mr - 1 THEN WaitRequestError * (a + 1) ELSE 0

\* The exception, if any, that the body of the try block ends with for outcome o:
\* the one session.get raised, or the HTTPError of raise_for_status.
attempt_exception(o) ==
    IF o.exc # "none" THEN o.exc
    ELSE IF o.status \notin {200, 429, 403} /\ raise_for_status(o.status)
         THEN "RequestException"
    ELSE "none"

\* Variant: the ConnectionError clause is written first.
caught_by_connection_first(e) ==
    IF e \in {"ConnectionError", "ConnectTimeout"} THEN "ConnectionError"
    ELSE IF e = "Timeout" THEN "Timeout"
    ELSE IF e = "none" THEN "none"
    ELSE "RequestException"

\* The except clause that catches exception e: the first, in the order written,
\* whose class e is an instance of (Timeout, ConnectionError, RequestException).
caught_by(e) ==
    IF e \in {"Timeout", "ConnectTimeout"} THEN "Timeout"
    ELSE IF e = "ConnectionError" THEN "ConnectionError"
    ELSE IF e = "none" THEN "none"
    ELSE "RequestException"

\* Seconds of the sleep that follows an attempt that does not return (0: none).
backoff_seconds(o, a, mr) ==
    IF o.exc = "none" /\ o.status = 429 THEN wait_429(a)
    ELSE IF caught_by(attempt_exception(o)) = "Timeout" THEN wait_timeout(a, mr)
    ELSE IF caught_by(attempt_exception(o)) = "ConnectionError" THEN wait_connection(a, mr)
    ELSE IF caught_by(attempt_exception(o)) = "RequestException"
         THEN wait_request_error(a, mr)
    ELSE 0

\* ---------------------------------------------------------------------- Init
NoPages == [p \in Pages |-> None]
NoStatus == [p \in Pages |-> "none"]

\* The session after __init__, with nothing called yet.
InitSession ==
    /\ max_retries \in 0..MaxRetries
    /\ delay_range \in { <<MinDelay, MinDelay + s>> : s \in 0..MaxDelaySpan }
    /\ request_count = 0
    /\ calls = 0
    /\ op = "none"
    /\ pc = "idle"
    /\ raised = "none"
    /\ attempt = 0
    /\ outcomes = <<>>
    /\ backoffs = <<>>
    /\ wait_time = 0
    /\ elapsed_time = 0
    /\ throttle_sleep = 0
    /\ entry_count = 0
    /\ fetch_result = "none"
    /\ html = None
    /\ page_num = 1
    /\ compounds = <<>>
    /\ start_page = 1
    /\ end_page = 1
    /\ all_compounds = <<>>
    /\ delay_count = 0
    /\ delay = 0
    /\ interrupted = "no"
    /\ visited = <<>>
    /\ page_status = NoStatus
    /\ page_html = NoPages
    /\ written = NoPages
    /\ parsed = {}
    /\ requested = {}
    /\ parse_html = None
    /\ parse_result = <<>>

\* The whole scraper: the attempt log of fetch_page is not kept.
Init == InitSession /\ tracing = FALSE

\* fetch_page watched attempt by attempt.
InitFetch == InitSession /\ tracing = TRUE

\* --------------------------------------------------------------- fetch_page
\* Entry of fetch_page: a fresh frame.
FetchEntry ==
    /\ attempt' = 0
    /\ outcomes' = <<>>
    /\ backoffs' = <<>>
    /\ wait_time' = 0
    /\ elapsed_time' = 0
    /\ throttle_sleep' = 0
    /\ entry_count' = request_count
    /\ fetch_result' = "none"
    /\ html' = None

\* No fetch_page frame.
NoFetchFrame ==
    /\ attempt' = 0
    /\ outcomes' = <<>>
    /\ backoffs' = <<>>
    /\ wait_time' = 0
    /\ elapsed_time' = 0
    /\ throttle_sleep' = 0
    /\ entry_count' = 0
    /\ fetch_result' = "none"
    /\ html' = None

\* A new top-level call may start when none is in progress.
CanCall == pc \in {"idle", "done"} /\ calls < MaxCalls

\* Per-call records start empty.
FreshCall(name) ==
    /\ op' = name
    /\ calls' = calls + 1
    /\ raised' = "none"
    /\ compounds' = <<>>
    /\ all_compounds' = <<>>
    /\ delay_count' = 0
    /\ delay' = 0
    /\ interrupted' = "no"
    /\ page_status' = NoStatus
    /\ page_html' = NoPages
    /\ written' = NoPages
    /\ parsed' = {}
    /\ requested' = {}

\* scraper.fetch_page(url of page p)
CallFetchPage ==
    /\ CanCall
    /\ \E p \in Pages :
        /\ page_num' = p
        /\ start_page' = p
        /\ end_page' = p
    /\ FreshCall("fetch_page")
    /\ visited' = <<>>
    /\ FetchEntry
    /\ pc' = "loop"
    /\ UNCHANGED <<config_vars, request_count, parse_vars>>

\* Where control goes when fetch_page returns.
AfterFetchPc == IF op = "fetch_page" THEN "done" ELSE "fetched"

\* Loop head with an attempt left: _check_rate_limit() reads the clock and may
\* sleep; _rotate_user_agent() follows (the header it sets is not modelled).
CheckRateLimit ==
    /\ pc = "loop"
    /\ attempt < max_retries
    /\ \E e \in 0..MaxElapsed :
        /\ elapsed_time' = e
        /\ throttle_sleep' = check_rate_limit_sleep(request_count, e)
    /\ pc' = "send"
    /\ UNCHANGED <<config_vars, request_count, calls, op, raised, attempt, outcomes,
                   backoffs, wait_time, entry_count, fetch_result, html,
                   page_vars, multi_vars, parse_vars>>

\* Loop exhausted: log and `return None` (line 141-142).
ReturnExhausted ==
    /\ pc = "loop"
    /\ ~(attempt < max_retries)
    /\ fetch_result' = "Exhausted"
    /\ html' = None
    /\ pc' = AfterFetchPc
    /\ UNCHANGED <<config_vars, request_count, calls, op, raised, attempt, outcomes,
                   backoffs, wait_time, elapsed_time, throttle_sleep, entry_count,
                   page_vars, multi_vars, parse_vars>>

\* Variant: a 403 is retried like any other status.
classify_retries_403(o) ==
    IF o.exc = "none" /\ o.status = 200 THEN "Success" ELSE "retry"

\* What the body of the loop does with outcome o: return the body (line 111),
\* return None (line 120), or go on to the next iteration.
classify(o) ==
    IF o.exc = "none" /\ o.status = 200 THEN "Success"
    ELSE IF o.exc = "none" /\ o.status = 403 THEN "Forbidden"
    ELSE "retry"

\* session.get and the handling of its outcome, up to the return, the start of
\* the backoff sleep, or the next iteration.
Send ==
    /\ pc = "send"
    /\ \E o \in GetOutcomes(page_num) :
        /\ outcomes' = IF tracing THEN Append(outcomes, o) ELSE outcomes
        /\ request_count' = IF counted(o) THEN count_request(request_count)
                            ELSE request_count
        /\ IF classify(o) = "Success"
           THEN /\ fetch_result' = "Success"
                /\ html' = o.body
                /\ pc' = AfterFetchPc
                /\ UNCHANGED <<attempt, wait_time>>
           ELSE IF classify(o) = "Forbidden"
           THEN /\ fetch_result' = "Forbidden"
                /\ html' = None
                /\ pc' = AfterFetchPc
                /\ UNCHANGED <<attempt, wait_time>>
           ELSE IF backoff_seconds(o, attempt, max_retries) > 0
           THEN /\ wait_time' = backoff_seconds(o, attempt, max_retries)
                /\ pc' = "backoff"
                /\ UNCHANGED <<attempt, fetch_result, html>>
           ELSE /\ attempt' = attempt + 1
                /\ pc' = "loop"
                /\ UNCHANGED <<wait_time, fetch_result, html>>
    /\ elapsed_time' = 0
    /\ throttle_sleep' = 0
    /\ requested' = requested \cup {page_num}
    /\ UNCHANGED <<config_vars, calls, op, raised, backoffs, entry_count,
                   page_num, compounds, visited, page_status, page_html, written,
                   parsed, multi_vars, parse_vars>>

\* Variant: the sleep ends but the attempt is not used up.
BackoffKeepsAttempt ==
    /\ pc = "backoff"
    /\ backoffs' = IF tracing THEN Append(backoffs, <<attempt + 1, wait_time>>)
                 ELSE backoffs
    /\ wait_time' = 0
    /\ pc' = "loop"
    /\ UNCHANGED <<config_vars, request_count, calls, op, raised, attempt, outcomes,
                   elapsed_time, throttle_sleep, entry_count, fetch_result, html,
                   page_vars, multi_vars, parse_vars>>

\* time.sleep(wait) of a handler completes; the loop goes to its next iteration.
Backoff ==
    /\ pc = "backoff"
    /\ backoffs' = IF tracing THEN Append(backoffs, <<attempt + 1, wait_time>>)
                 ELSE backoffs
    /\ wait_time' = 0
    /\ attempt' = attempt + 1
    /\ pc' = "loop"
    /\ UNCHANGED <<config_vars, request_count, calls, op, raised, outcomes,
                   elapsed_time, throttle_sleep, entry_count, fetch_result, html,
                   page_vars, multi_vars, parse_vars>>

\* -------------------------------------------------------------- scrape_page
\* scraper.scrape_page(p): build the url, call fetch_page.
CallScrapePage ==
    /\ CanCall
    /\ \E p \in Pages :
        /\ page_num' = p
        /\ start_page' = p
        /\ end_page' = p
        /\ visited' = <<p>>
    /\ FreshCall("scrape_page")
    /\ FetchEntry
    /\ pc' = "loop"
    /\ UNCHANGED <<config_vars, request_count, parse_vars>>

\* Variant: the delay also follows the last page.
needs_delay_inclusive(p, e) == p <= e

\* `if page_num < end_page` before self._random_delay()
needs_delay(p, e) == p < e

\* scrape_page returns `result` for the current page with status `st`. A direct
\* call ends; inside scrape_multiple_pages the list is extended and the loop
\* body goes on to the delay test `if page_num < end_page`.
ScrapePageReturns(result, st) ==
    /\ compounds' = result
    /\ page_status' = [page_status EXCEPT ![page_num] = st]
    /\ IF op = "scrape_multiple_pages"
       THEN /\ all_compounds' = all_compounds \o result
            /\ IF needs_delay(page_num, end_page)
               THEN pc' = "delay" /\ page_num' = page_num
               ELSE pc' = "page_loop" /\ page_num' = page_num + 1
       ELSE /\ pc' = "done"
            /\ UNCHANGED <<all_compounds, page_num>>

\* Variant: the handler of the page loop breaks instead of continuing.
PageRaisesBreaks ==
    /\ page_status' = [page_status EXCEPT ![page_num] = "raised"]
    /\ pc' = "done"
    /\ page_num' = page_num
    /\ raised' = IF op = "scrape_multiple_pages" THEN raised ELSE "Exception"

\* An exception (not KeyboardInterrupt) raised while the current page is
\* processed: a direct call lets it out; the page loop logs it and continues.
PageRaises ==
    /\ page_status' = [page_status EXCEPT ![page_num] = "raised"]
    /\ IF op = "scrape_multiple_pages"
       THEN /\ pc' = "page_loop"
            /\ page_num' = page_num + 1
            /\ raised' = raised
       ELSE /\ pc' = "done"
            /\ page_num' = page_num
            /\ raised' = "Exception"

\* `html = self.fetch_page(url); if not html: return []` (the frame of
\* fetch_page is gone: only its return value is kept)
CheckHtml ==
    /\ pc = "fetched"
    /\ page_html' = [page_html EXCEPT
                        ![page_num] = IF fetch_result = "Success" THEN html ELSE None]
    /\ IF Falsy(html)
       THEN ScrapePageReturns(<<>>, "no_html")
       ELSE /\ pc' = "write"
            /\ UNCHANGED <<compounds, page_status, all_compounds, page_num>>
    /\ attempt' = 0
    /\ outcomes' = <<>>
    /\ backoffs' = <<>>
    /\ entry_count' = 0
    /\ UNCHANGED <<config_vars, request_count, calls, op, raised, wait_time,
                   elapsed_time, throttle_sleep, fetch_result, html,
                   visited, written, parsed, requested, start_page, end_page,
                   delay_count, delay, interrupted, parse_vars>>

\* `with open(filename, 'w') as f: f.write(html)`: done, or OSError.
WriteDebugFile ==
    /\ pc = "write"
    /\ \/ /\ written' = [written EXCEPT ![page_num] = html]
          /\ pc' = "parse"
          /\ UNCHANGED <<page_status, page_num, raised>>
       \/ /\ PageRaises
          /\ UNCHANGED written
    /\ UNCHANGED <<config_vars, request_count, calls, op, fetch_vars, compounds,
                   visited, page_html, parsed, requested, multi_vars, parse_vars>>

\* `compounds = self.parse_compounds(html); return compounds`, or the parser raises.
ParsePage ==
    /\ pc = "parse"
    /\ parsed' = parsed \cup {page_num}
    /\ \/ /\ ScrapePageReturns(parse_compounds(html), "ok")
          /\ UNCHANGED raised
       \/ /\ PageRaises
          /\ UNCHANGED <<compounds, all_compounds>>
    /\ UNCHANGED <<config_vars, request_count, calls, op, fetch_vars, visited,
                   page_html, written, requested, start_page, end_page,
                   delay_count, delay, interrupted, parse_vars>>

\* ---------------------------------------------------- scrape_multiple_pages
\* scraper.scrape_multiple_pages(a, b)
CallScrapeMultiplePages ==
    /\ CanCall
    /\ \E a \in Pages, b \in Pages :
        /\ start_page' = a
        /\ end_page' = b
        /\ page_num' = a
    /\ FreshCall("scrape_multiple_pages")
    /\ visited' = <<>>
    /\ NoFetchFrame
    /\ pc' = "page_loop"
    /\ UNCHANGED <<config_vars, request_count, parse_vars>>

\* `for page_num in range(start_page, end_page + 1)`: the next page, if any, is
\* handed to scrape_page; otherwise the list is returned.
PageLoop ==
    /\ pc = "page_loop"
    /\ IF page_num <= end_page
       THEN /\ visited' = Append(visited, page_num)
            /\ FetchEntry
            /\ pc' = "loop"
       ELSE /\ pc' = "done"
            /\ UNCHANGED <<visited, fetch_vars>>
    /\ UNCHANGED <<config_vars, request_count, calls, op, raised, page_num,
                   compounds, page_status, page_html, written, parsed, requested,
                   multi_vars, parse_vars>>

\* random.uniform(self.delay_range[0], self.delay_range[1])
random_delays(range) == range[1]..range[2]

\* `if page_num < end_page: self._random_delay()`
RandomDelay ==
    /\ pc = "delay"
    /\ \E d \in random_delays(delay_range) : delay' = d
    /\ delay_count' = delay_count + 1
    /\ page_num' = page_num + 1
    /\ pc' = "page_loop"
    /\ UNCHANGED <<config_vars, request_count, calls, op, raised, fetch_vars,
                   compounds, visited, page_status, page_html, written, parsed,
                   requested, start_page, end_page, all_compounds, interrupted,
                   parse_vars>>

\* Positions inside the try block of the page loop, where a KeyboardInterrupt
\* can be delivered: the throttle check, the GET, a backoff sleep, the return of
\* fetch_page, the file write, the parse and the politeness delay.
Interruptible == {"loop", "send", "backoff", "fetched", "write", "parse", "delay"}

\* Variant: no handler for KeyboardInterrupt.
catches_interrupt_nowhere(o) == FALSE

\* `except KeyboardInterrupt` exists in the page loop alone.
catches_interrupt(o) == o = "scrape_multiple_pages"

\* KeyboardInterrupt is no subclass of Exception: no handler of fetch_page or
\* scrape_page catches it, and their frames are unwound. The page loop catches
\* it, logs and breaks; a direct call of fetch_page or scrape_page lets it out.
Interrupt ==
    /\ pc \in Interruptible
    /\ pc' = "done"
    /\ NoFetchFrame
    /\ IF catches_interrupt(op)
       THEN /\ interrupted' = pc
            /\ page_status' = [page_status EXCEPT
                                  ![page_num] = IF pc = "delay" THEN @ ELSE "interrupted"]
            /\ raised' = raised
       ELSE /\ raised' = "KeyboardInterrupt"
            /\ UNCHANGED <<interrupted, page_status>>
    /\ UNCHANGED <<config_vars, request_count, calls, op, page_num,
                   compounds, visited, page_html, written, parsed, requested,
                   start_page, end_page, all_compounds, delay_count, delay,
                   parse_vars>>

\* ------------------------------------------------------------ get_statistics
\* Reads request_count and the clock; changes nothing of the session.
GetStatistics ==
    /\ CanCall
    /\ FreshCall("get_statistics")
    /\ NoFetchFrame
    /\ visited' = <<>>
    /\ pc' = "done"
    /\ UNCHANGED <<config_vars, request_count, page_num, start_page, end_page,
                   parse_vars>>

Next ==
    \/ CallFetchPage
    \/ CallScrapePage
    \/ CallScrapeMultiplePages
    \/ GetStatistics
    \/ CheckRateLimit
    \/ ReturnExhausted
    \/ Send
    \/ Backoff
    \/ CheckHtml
    \/ WriteDebugFile
    \/ ParsePage
    \/ PageLoop
    \/ RandomDelay
    \/ Interrupt

Spec == Init /\ [][Next]_vars

\* fetch_page alone, called directly.
NextFetch ==
    \/ CallFetchPage
    \/ CheckRateLimit
    \/ ReturnExhausted
    \/ Send
    \/ Backoff
    \/ Interrupt

SpecFetch == InitFetch /\ [][NextFetch]_vars

\* The steps fetch_page takes by itself: every sleep ends and every GET ends
\* (timeout=30), so a step that is possible is eventually taken.
FetchStep == CheckRateLimit \/ ReturnExhausted \/ Send \/ Backoff

FairSpecFetch == InitFetch /\ [][NextFetch]_vars /\ WF_vars(FetchStep)

\* --------------------------------------------- parse_compounds called alone
\* All sequences over S of length at most n.
SeqsUpTo(S, n) == UNION { [1..k -> S] : k \in 0..n }

\* Arguments of a direct call: None, the empty string, a page without the list,
\* every page of exactly one item, and the pages of up to MaxItems sample items.
ParseInputs ==
    {None, EmptyHtml, NoListHtml}
    \cup { ListHtml(<<it>>) : it \in Items }
    \cup { ListHtml(its) : its \in SeqsUpTo(SampleItems, MaxItems) }

InitParse ==
    /\ InitSession
    /\ tracing = FALSE
    /\ max_retries = 0
    /\ delay_range = <<MinDelay, MinDelay>>

\* scraper.parse_compounds(h)
CallParseCompounds ==
    /\ pc = "idle"
    /\ \E h \in ParseInputs :
        /\ parse_html' = h
        /\ parse_result' = parse_compounds(h)
    /\ op' = "parse_compounds"
    /\ pc' = "done"
    /\ UNCHANGED <<config_vars, request_count, calls, raised, fetch_vars, page_vars,
                   multi_vars>>

NextParse == CallParseCompounds

SpecParse == InitParse /\ [][NextParse]_vars

\* ================================================================ properties
\* fetch_page has returned a value and its frame is still in view.
FetchPageReturned ==
    /\ fetch_result # "none"
    /\ \/ op = "fetch_page" /\ pc = "done" /\ raised = "none"
       \/ pc = "fetched"

\* Attempts of the current fetch_page call on which a response was received.
ResponsesReceived == Cardinality({ i \in DOMAIN outcomes : outcomes[i].exc = "none" })

Is429(o) == o.exc = "none" /\ o.status = 429
Is403(o) == o.exc = "none" /\ o.status = 403
Is200(o) == o.exc = "none" /\ o.status = 200

\* C1 as stated: when fetch_page returns the body of a 200 received on attempt
\* n, request_count has grown by exactly n, the number of attempts made.
C1_CountsEveryAttempt ==
    (FetchPageReturned /\ fetch_result = "Success")
        => request_count = entry_count + Len(outcomes)

\* C1 amended: when fetch_page returns after a 200 on attempt n <= max_retries,
\* it returns that response's body, and request_count has grown by the number
\* of attempts on which a response was received (n less the attempts whose GET
\* raised a timeout, a connection error or another request error).
C1_CountsResponses ==
    (FetchPageReturned /\ fetch_result = "Success")
        => /\ Len(outcomes) = attempt + 1
           /\ Len(outcomes) <= max_retries
           /\ Is200(outcomes[Len(outcomes)])
           /\ html = outcomes[Len(outcomes)].body
           /\ html.type = "str"
           /\ request_count = entry_count + ResponsesReceived

\* A 200 on the second attempt, after an attempt whose GET raised.
C1_Witness ==
    /\ FetchPageReturned
    /\ fetch_result = "Success"
    /\ Len(outcomes) = 2
    /\ outcomes[1].exc # "none"
    /\ request_count = entry_count + 1

\* Every attempt of the current call so far received a 429.
All429 == \A i \in DOMAIN outcomes : Is429(outcomes[i])

\* C2: when every attempt receives 429, the 429 of attempt k is followed by a
\* sleep of exactly 60*k seconds (k = 1..max_retries, the last one included),
\* every 429 uses up one iteration of the loop, and fetch_page returns None as
\* exhausted after exactly max_retries requests.
C2_All429Exhausts ==
    (All429 /\ pc \in {"loop", "send", "backoff", "fetched", "done"})
        => /\ Len(outcomes) <= max_retries
           /\ \A k \in DOMAIN backoffs : backoffs[k] = <<k, 60 * k>>
           /\ pc = "backoff" => (wait_time = 60 * Len(outcomes)
                                 /\ Len(backoffs) = Len(outcomes) - 1)
           /\ pc \in {"loop", "send"} => (Len(backoffs) = Len(outcomes)
                                          /\ attempt = Len(outcomes))
           /\ FetchPageReturned
                => /\ fetch_result = "Exhausted"
                   /\ html = None
                   /\ Len(outcomes) = max_retries
                   /\ Len(backoffs) = max_retries
                   /\ request_count = entry_count + max_retries

\* Two 429s with max_retries = 2: exhausted after sleeps of 60 and 120 seconds.
C2_Witness ==
    /\ FetchPageReturned
    /\ fetch_result = "Exhausted"
    /\ max_retries = 2
    /\ Len(outcomes) = 2
    /\ All429
    /\ backoffs = << <<1, 60>>, <<2, 120>> >>

\* C3: a 403 on any attempt makes fetch_page return None at once: the 403 is
\* the last request of the call and no backoff sleep follows it.
C3_ForbiddenAborts ==
    \A i \in DOMAIN outcomes :
        Is403(outcomes[i])
            => /\ i = Len(outcomes)
               /\ pc \in {"done", "fetched"}
               /\ fetch_result = "Forbidden"
               /\ html = None
               /\ wait_time = 0
               /\ \A k \in DOMAIN backoffs : backoffs[k][1] < i

\* A 403 on the second attempt, after a 429 and its backoff.
C3_Witness ==
    /\ FetchPageReturned
    /\ Len(outcomes) = 2
    /\ Is429(outcomes[1])
    /\ Is403(outcomes[2])
    /\ backoffs = << <<1, 60>> >>

\* The three ways fetch_page ends, told by what it returned and what it received.
LastOutcome == outcomes[Len(outcomes)]
EndsSuccess == outcomes # <<>> /\ Is200(LastOutcome) /\ html.type = "str"
EndsForbidden == outcomes # <<>> /\ Is403(LastOutcome) /\ html = None
EndsExhausted ==
    /\ html = None
    /\ Len(outcomes) = max_retries
    /\ \A i \in DOMAIN outcomes : ~Is200(outcomes[i]) /\ ~Is403(outcomes[i])

\* C7: for every max_retries >= 0 and every sequence of outcomes, fetch_page
\* issues at most max_retries requests, no request error leaves it as an
\* exception, a call that returns ends in exactly one of Success, Forbidden and
\* Exhausted, and every call ends.
C7_FetchPageTerminates ==
    /\ [](/\ Len(outcomes) <= max_retries
          /\ attempt <= max_retries
          /\ raised \in {"none", "KeyboardInterrupt"}
          /\ (raised = "KeyboardInterrupt" => fetch_result = "none")
          /\ FetchPageReturned
                => /\ fetch_result = "Success" <=> EndsSuccess
                   /\ fetch_result = "Forbidden" <=> EndsForbidden
                   /\ fetch_result = "Exhausted" <=> EndsExhausted
                   /\ (EndsSuccess \/ EndsForbidden \/ EndsExhausted)
                   /\ ~(EndsSuccess /\ EndsForbidden)
                   /\ ~(EndsSuccess /\ EndsExhausted)
                   /\ ~(EndsForbidden /\ EndsExhausted))
    /\ ((op = "fetch_page" /\ pc = "loop") ~> (pc = "done"))

\* Exhausted with max_retries = 2 after a timeout and a connection error, none
\* of which left the call as an exception.
C7_Witness ==
    /\ FetchPageReturned
    /\ fetch_result = "Exhausted"
    /\ max_retries = 2
    /\ Len(outcomes) = 2
    /\ outcomes[1].exc = "Timeout"
    /\ outcomes[2].exc = "ConnectionError"
    /\ raised = "none"

\* ------------------------------------------------------------ parse_compounds
FieldNames == {"catalog_no", "url", "name_en", "name_cn", "cas_no", "purity",
               "description", "structure_image"}
PopulatedFields(item) == { f \in FieldNames : f \in compound_data(item) }

RECURSIVE AtLeastThree(_)
AtLeastThree(its) ==
    IF its = <<>> THEN <<>>
    ELSE (IF Cardinality(PopulatedFields(Head(its))) >= 3
          THEN <<compound_data(Head(its))>> ELSE <<>>) \o AtLeastThree(Tail(its))

\* C6: parse_compounds returns, in page order, the record of exactly those items
\* whose record has at least 3 of the 8 fields populated: 0, 1 or 2 fields
\* exclude an item, 3 include it; a missing tag leaves its field out and nothing
\* is raised.
C6_KeepsThreeOrMore ==
    (op = "parse_compounds" /\ pc = "done")
        => /\ raised = "none"
           /\ parse_result = (IF parse_html.type = "str" /\ parse_html.list
                              THEN AtLeastThree(parse_html.items) ELSE <<>>)
           /\ \A i \in DOMAIN parse_result :
                parse_result[i] \subseteq FieldNames /\ Cardinality(parse_result[i]) >= 3
           /\ \A i \in DOMAIN parse_html.items :
                LET it == parse_html.items[i] IN
                  /\ it.cat = "absent" => compound_data(it) \cap {"catalog_no", "url"} = {}
                  /\ ~it.name_tag => compound_data(it) \cap {"name_en", "name_cn"} = {}
                  /\ it.cas = "absent" => "cas_no" \notin compound_data(it)
                  /\ it.purity = "absent" => "purity" \notin compound_data(it)
                  /\ it.brief = "absent" => "description" \notin compound_data(it)
                  /\ it.structure = "absent" => "structure_image" \notin compound_data(it)
                  /\ Len(parse_html.items) = 1
                        => (Len(parse_result) = 1
                              <=> Cardinality(PopulatedFields(it)) \notin {0, 1, 2})

\* A page of an item with 2 fields and an item with exactly 3: only the second is kept.
C6_Witness ==
    /\ op = "parse_compounds"
    /\ pc = "done"
    /\ parse_html.items = <<TwoFieldItem, ThreeFieldItem>>
    /\ Cardinality(PopulatedFields(TwoFieldItem)) = 2
    /\ Cardinality(PopulatedFields(ThreeFieldItem)) = 3
    /\ parse_result = << {"catalog_no", "url", "name_en"} >>

\* ------------------------------------------------------ scrape_multiple_pages
MultiReturned == op = "scrape_multiple_pages" /\ pc = "done"

\* <<a, a+1, ..., b>>
RangeSeq(a, b) == [i \in 1..(b - a + 1) |-> a + i - 1]

\* Records that page q added to the list: those parsed from its body when
\* scrape_page returned them, none when its fetch failed, its processing raised
\* or it was interrupted.
RecordsOf(q) == IF page_status[q] = "ok" THEN parse_compounds(page_html[q]) ELSE <<>>

RECURSIVE ConcatPages(_, _)
ConcatPages(a, b) == IF a > b THEN <<>> ELSE RecordsOf(a) \o ConcatPages(a + 1, b)

RECURSIVE ConcatBodies(_, _)
ConcatBodies(a, b) ==
    IF a > b THEN <<>> ELSE parse_compounds(page_html[a]) \o ConcatBodies(a + 1, b)

RECURSIVE SumRecords(_, _)
SumRecords(a, b) ==
    IF a > b THEN 0 ELSE Len(parse_compounds(page_html[a])) + SumRecords(a + 1, b)

\* The fetch of page q returned a body and nothing was raised while q was processed.
PageSucceeded(q) == page_html[q] # None /\ page_status[q] \in {"ok", "no_html"}

\* C4: scrape_multiple_pages(a, b), a <= b, every page fetched successfully and
\* processed without an exception or interrupt: the list returned is the
\* concatenation in ascending page order of the records parsed from each page,
\* its length the sum of the per-page counts; exactly b - a politeness delays
\* were made, and every delay drawn lies within [delay_range min, delay_range max].
C4_AllPagesSucceed ==
    /\ (op = "scrape_multiple_pages" /\ delay # 0)
          => (delay >= delay_range[1] /\ delay <= delay_range[2])
    /\ (/\ MultiReturned
        /\ interrupted = "no"
        /\ start_page <= end_page
        /\ \A q \in start_page..end_page : PageSucceeded(q))
          => /\ all_compounds = ConcatBodies(start_page, end_page)
             /\ Len(all_compounds) = SumRecords(start_page, end_page)
             /\ delay_count = end_page - start_page
             /\ visited = RangeSeq(start_page, end_page)

\* Pages 1..2, both with records: 2 + 3 records in page order, one delay.
C4_Witness ==
    /\ MultiReturned
    /\ interrupted = "no"
    /\ start_page = 1
    /\ end_page = 2
    /\ page_status[1] = "ok" /\ page_html[1] = PageDoc(1)
    /\ page_status[2] = "ok" /\ page_html[2] = PageDoc(2)
    /\ Len(all_compounds) = 5
    /\ all_compounds = parse_compounds(PageDoc(1)) \o parse_compounds(PageDoc(2))
    /\ delay_count = 1
    /\ delay \in {3, 4}

\* C5 as stated: an interrupt while page p is processed (the politeness delay
\* after p included) does not raise and returns the records of the pages before
\* p only.
C5_KeepsPagesBeforeOnly ==
    /\ MultiReturned => raised = "none"
    /\ (MultiReturned /\ interrupted # "no")
          => all_compounds = ConcatPages(start_page, page_num - 1)

\* C5 amended: an interrupt while page p is processed does not raise, no page
\* after p is requested, and the list returned holds the records of the pages
\* whose scrape_page call had returned: pages a..p-1, and page p too when the
\* interrupt arrives during the politeness delay that follows page p.
C5_KeepsReturnedPages ==
    /\ MultiReturned => raised = "none"
    /\ (MultiReturned /\ interrupted # "no")
          => /\ page_num \in start_page..end_page
             /\ visited = RangeSeq(start_page, page_num)
             /\ requested \subseteq start_page..page_num
             /\ interrupted = "delay"
                  => /\ page_status[page_num] \in {"ok", "no_html"}
                     /\ all_compounds = ConcatPages(start_page, page_num - 1)
                                           \o RecordsOf(page_num)
             /\ interrupted # "delay"
                  => /\ page_status[page_num] = "interrupted"
                     /\ all_compounds = ConcatPages(start_page, page_num - 1)

\* Interrupted while page 2 of 1..2 waits for its response: page 1's records are returned.
C5_Witness ==
    /\ MultiReturned
    /\ interrupted = "send"
    /\ start_page = 1
    /\ end_page = 2
    /\ page_num = 2
    /\ page_status[1] = "ok"
    /\ all_compounds = parse_compounds(PageDoc(1))
    /\ raised = "none"

\* C8: a non-interrupt exception raised while page p is processed is caught,
\* page p adds no record, every later page is still processed once in ascending
\* order, and the list returned is the concatenation of the records of the
\* pages that did not raise.
C8_RaisedPageSkipped ==
    /\ MultiReturned => raised = "none"
    /\ (MultiReturned /\ interrupted = "no")
          => /\ visited = RangeSeq(start_page, end_page)
             /\ all_compounds = ConcatPages(start_page, end_page)
             /\ \A q \in start_page..end_page : page_status[q] \in {"ok", "no_html", "raised"}
    /\ (op = "scrape_multiple_pages" /\ pc = "page_loop" /\ page_num <= end_page)
          => visited = RangeSeq(start_page, page_num - 1)

\* Page 1 raises after its fetch succeeded; page 2 is processed and its records returned.
C8_Witness ==
    /\ MultiReturned
    /\ interrupted = "no"
    /\ start_page = 1
    /\ end_page = 2
    /\ page_status[1] = "raised"
    /\ page_html[1] = PageDoc(1)
    /\ page_status[2] = "ok"
    /\ visited = <<1, 2>>
    /\ all_compounds = parse_compounds(PageDoc(2))
    /\ Len(all_compounds) = 3

\* C9: when fetch_page fails (Forbidden or Exhausted), scrape_page returns an
\* empty list without raising, no debug file is written and the parser is not
\* invoked; in scrape_multiple_pages the run goes on: every remaining page is
\* handed to scrape_page, and requested whenever max_retries allows a request.
C9_FailedFetchYieldsEmpty ==
    /\ \A q \in Pages : (q \in parsed \/ written[q] # None) => page_html[q] # None
    /\ pc \in {"write", "parse"} => (fetch_result = "Success" /\ html # None)
    /\ (/\ op = "scrape_page"
        /\ pc = "done"
        /\ fetch_result \in {"Forbidden", "Exhausted"}
        /\ raised # "KeyboardInterrupt")
          => /\ raised = "none"
             /\ compounds = <<>>
             /\ page_status[page_num] = "no_html"
             /\ written[page_num] = None
             /\ page_num \notin parsed
    /\ (MultiReturned /\ interrupted = "no")
          => /\ visited = RangeSeq(start_page, end_page)
             /\ raised = "none"
             /\ max_retries > 0 => \A q \in start_page..end_page : q \in requested
             /\ \A q \in start_page..end_page :
                    page_html[q] = None => (RecordsOf(q) = <<>> /\ page_status[q] = "no_html")

\* The fetch of page 1 fails; page 2 is still requested and its records returned.
C9_Witness ==
    /\ MultiReturned
    /\ interrupted = "no"
    /\ start_page = 1
    /\ end_page = 2
    /\ page_status[1] = "no_html"
    /\ page_html[1] = None
    /\ written[1] = None
    /\ 1 \notin parsed
    /\ 2 \in requested
    /\ page_status[2] = "ok"
    /\ all_compounds = parse_compounds(PageDoc(2))

\* C10: request_count starts at 0 and no step of any operation lowers or
\* resets it.
C10_CountNeverDecreases ==
    /\ request_count = 0
    /\ [][request_count' >= request_count]_vars

\* A second call, entered with a positive count, that ends Forbidden keeps the count.
C10_Witness ==
    /\ calls = 2
    /\ entry_count >= 2
    /\ fetch_result = "Forbidden"
    /\ request_count = entry_count + 1

\* ------------------------------------------------- backoff after a raised error
\* Seconds fetch_page sleeps after attempt i of the current call and before it
\* goes on (0: no sleep): the sleep in progress, or the one logged for i.
WaitAfter(i) ==
    IF pc = "backoff" /\ i = Len(outcomes) THEN wait_time
    ELSE IF \E j \in DOMAIN backoffs : backoffs[j][1] = i
         THEN (CHOOSE b \in { backoffs[j] : j \in DOMAIN backoffs } : b[1] = i)[2]
    ELSE 0

\* How attempt i ended, by the exception the try block ended with: "Timeout"
\* (a read or a connect timeout), "ConnectionError", "RequestException" (any
\* other request error, the HTTPError of raise_for_status included), or "none".
ClauseOf(i) ==
    LET e == attempt_exception(outcomes[i]) IN
      IF e \in {"Timeout", "ConnectTimeout"} THEN "Timeout"
      ELSE IF e \in {"none", "ConnectionError"} THEN e
      ELSE "RequestException"

\* C11 as stated: for every attempt k in 1..max_retries, a timeout is followed
\* by a wait of 5*k seconds, a connection error by 10*k, any other request
\* error by 5*k, before the retry or the report of exhaustion.
C11_WaitsAfterEveryError ==
    \A k \in DOMAIN outcomes :
        /\ ClauseOf(k) = "Timeout" => WaitAfter(k) = 5 * k
        /\ ClauseOf(k) = "ConnectionError" => WaitAfter(k) = 10 * k
        /\ ClauseOf(k) = "RequestException" => WaitAfter(k) = 5 * k

\* C11 amended: for every attempt k in 1..max_retries - 1, a timeout is followed
\* by a wait of 5*k seconds, a connection error by 10*k, any other request
\* error by 5*k, and the wait precedes the retry; after an error on attempt
\* k = max_retries there is no wait and exhaustion is reported at once.
C11_WaitsBeforeRetryOnly ==
    \A k \in DOMAIN outcomes :
        /\ k <= max_retries
        /\ (k < max_retries /\ ClauseOf(k) = "Timeout") => WaitAfter(k) = 5 * k
        /\ (k < max_retries /\ ClauseOf(k) = "ConnectionError") => WaitAfter(k) = 10 * k
        /\ (k < max_retries /\ ClauseOf(k) = "RequestException") => WaitAfter(k) = 5 * k
        /\ (k < Len(outcomes) /\ ClauseOf(k) # "none")
              => \E j \in DOMAIN backoffs : backoffs[j][1] = k
        /\ (k = max_retries /\ ClauseOf(k) # "none")
              => /\ WaitAfter(k) = 0
                 /\ pc \in {"loop", "done", "fetched"}
                 /\ pc # "loop" => fetch_result = "Exhausted"

\* max_retries = 2: a connection error on attempt 1 is followed by 10 seconds,
\* a connect timeout on attempt 2 by no wait, and the call ends exhausted.
C11_Witness ==
    /\ FetchPageReturned
    /\ fetch_result = "Exhausted"
    /\ max_retries = 2
    /\ Len(outcomes) = 2
    /\ outcomes[1].exc = "ConnectionError"
    /\ outcomes[2].exc = "ConnectTimeout"
    /\ backoffs = << <<1, 10>> >>

\* ------------------------------------------------------------- other statuses
\* A response whose status is neither 200, 429 nor 403 and is not a 2xx.
OtherStatus(o) ==
    /\ o.exc = "none"
    /\ o.status \notin {200, 429, 403}
    /\ ~(o.status >= 200 /\ o.status < 300)

\* A 4xx or 5xx status.
ErrorStatus(o) == o.exc = "none" /\ o.status >= 400 /\ o.status < 600

\* Attempt k is never the success of the call and used up one iteration of the
\* loop.
CountsAgainstBudget(k) ==
    /\ fetch_result = "Success" => k < Len(outcomes)
    /\ Len(outcomes) <= max_retries
    /\ pc \in {"loop", "send"} => attempt = Len(outcomes)
    /\ pc = "backoff" => attempt = Len(outcomes) - 1

\* C12 as stated: a response with a 1xx, 3xx, 4xx or 5xx status other than 429
\* and 403 is never returned as success, counts against the retry budget, and
\* is followed by a backoff of 5 * attempt_number seconds before the next
\* attempt.
C12_OtherStatusBacksOff ==
    \A k \in DOMAIN outcomes :
        OtherStatus(outcomes[k])
            => /\ CountsAgainstBudget(k)
               /\ k < max_retries => WaitAfter(k) = 5 * k

\* C12 amended: a response with a 1xx, 3xx, 4xx or 5xx status other than 429
\* and 403 is never returned as success and counts against the retry budget;
\* a 4xx or 5xx is followed by a backoff of 5 * attempt_number seconds before
\* the next attempt, a 1xx or 3xx by the next attempt with no backoff.
C12_ErrorStatusBacksOff ==
    \A k \in DOMAIN outcomes :
        OtherStatus(outcomes[k])
            => /\ CountsAgainstBudget(k)
               /\ (k < max_retries /\ ErrorStatus(outcomes[k])) => WaitAfter(k) = 5 * k
               /\ (k < Len(outcomes) /\ ErrorStatus(outcomes[k]))
                     => \E j \in DOMAIN backoffs : backoffs[j] = <<k, 5 * k>>
               /\ ~ErrorStatus(outcomes[k])
                     => /\ WaitAfter(k) = 0
                        /\ pc # "backoff" \/ k < Len(outcomes)

\* A 304 on attempt 1 is retried with no backoff; the 200 of attempt 2 is the
\* success of the call.
C12_Witness ==
    /\ FetchPageReturned
    /\ fetch_result = "Success"
    /\ Len(outcomes) = 2
    /\ outcomes[1].exc = "none"
    /\ outcomes[1].status = 304
    /\ Is200(outcomes[2])
    /\ backoffs = <<>>
    /\ request_count = entry_count + 2

\* ------------------------------------------------------------ politeness delay
\* Positions at which the current page of the page loop is being fetched or
\* processed.
InPage == {"loop", "send", "backoff", "fetched", "write", "parse"}

\* C13: in a run of scrape_multiple_pages(a, b) that is not interrupted,
\* whatever the outcome of each page, exactly one politeness delay within
\* [delay_range min, delay_range max] lies between the processing of page p and
\* the first request of page p + 1 for every p in a..b-1, and none follows
\* page b.
C13_OneDelayBetweenPages ==
    /\ (op = "scrape_multiple_pages" /\ delay # 0)
          => (delay >= delay_range[1] /\ delay <= delay_range[2])
    /\ (op = "scrape_multiple_pages" /\ pc \in InPage)
          => delay_count = page_num - start_page
    /\ (MultiReturned /\ interrupted = "no" /\ start_page <= end_page)
          => delay_count = end_page - start_page

\* ------------------------------------------------------ scrape_page on success
\* The scrape_page call for page q has returned (it neither raised nor was
\* interrupted).
PageReturned(q) == page_status[q] \in {"ok", "no_html"}

\* `compounds` still holds what the scrape_page call for page q returned.
JustReturned(q) ==
    /\ PageReturned(q)
    /\ \/ op = "scrape_page" /\ pc = "done" /\ q = page_num
       \/ op = "scrape_multiple_pages" /\ pc = "delay" /\ q = page_num
       \/ op = "scrape_multiple_pages" /\ pc \in {"page_loop", "done"}
             /\ interrupted = "no" /\ q = page_num - 1

\* C14 as stated: whenever fetch_page ends in Success for page n, for any body,
\* the empty one included, scrape_page writes that body to page_n_raw.html and
\* returns exactly the records the parser produces for it, and the page is not
\* reported as a fetch failure.
C14_SuccessIsWrittenAndParsed ==
    \A q \in Pages :
        (PageReturned(q) /\ page_html[q] # None)
            => /\ written[q] = page_html[q]
               /\ q \in parsed
               /\ page_status[q] = "ok"
               /\ JustReturned(q) => compounds = parse_compounds(page_html[q])

\* C14 amended: whenever fetch_page ends in Success for page n with a non-empty
\* body, scrape_page writes that body to page_n_raw.html and returns exactly
\* the records the parser produces for it, and the page is not reported as a
\* fetch failure; with an empty body scrape_page reports a fetch failure,
\* writes no file, does not invoke the parser and returns an empty list.
C14_NonEmptySuccessIsWritten ==
    \A q \in Pages :
        (PageReturned(q) /\ page_html[q] # None)
            => IF page_html[q].empty
               THEN /\ written[q] = None
                    /\ q \notin parsed
                    /\ page_status[q] = "no_html"
                    /\ JustReturned(q) => compounds = <<>>
               ELSE /\ written[q] = page_html[q]
                    /\ q \in parsed
                    /\ page_status[q] = "ok"
                    /\ JustReturned(q) => compounds = parse_compounds(page_html[q])

\* Pages 1..2: page 1 answers 200 with an empty body and is reported as a fetch
\* failure with no file; page 2 answers 200 with a page that is written and
\* whose 3 records are returned.
C14_Witness ==
    /\ MultiReturned
    /\ interrupted = "no"
    /\ start_page = 1
    /\ end_page = 2
    /\ page_html[1] = EmptyHtml
    /\ page_status[1] = "no_html"
    /\ written[1] = None
    /\ page_html[2] = PageDoc(2)
    /\ written[2] = PageDoc(2)
    /\ JustReturned(2)
    /\ compounds = parse_compounds(PageDoc(2))
    /\ Len(compounds) = 3

\* -------------------------------------------------------------- throttle check
\* The throttle check of the current attempt has run and its request is not
\* sent yet.
Throttled == pc = "send"

\* C15: before every attempt of fetch_page the throttle check runs once: it
\* inserts one pause of 2 seconds when the elapsed time is positive and
\* request_count / elapsed exceeds 0.5, and no pause otherwise; it changes
\* neither request_count nor the attempt number, and the request can be sent
\* after it.
C15_ThrottleBeforeEveryAttempt ==
    /\ [](Throttled
            => /\ throttle_sleep =
                    (IF elapsed_time > 0 /\ 2 * request_count > elapsed_time
                     THEN 2 ELSE 0)
               /\ attempt < max_retries
               /\ Len(outcomes) = attempt
               /\ ENABLED Send)
    /\ [][/\ (pc = "loop" /\ pc' = "send")
               => (request_count' = request_count /\ attempt' = attempt)
          /\ pc' = "send" => pc = "loop"
          /\ request_count' # request_count => pc = "send"
          /\ Len(outcomes') > Len(outcomes) => pc = "send"]_vars

\* The retry after one response, one second after the session started: the
\* rate of 1 request per second exceeds the ceiling and 2 seconds are slept.
C15_Witness ==
    /\ op = "fetch_page"
    /\ Throttled
    /\ attempt = 1
    /\ request_count = 1
    /\ elapsed_time = 1
    /\ throttle_sleep = 2

\* ------------------------------------------------- what request_count counts
\* The frame of a fetch_page call is in view.
InFetchPage == pc \in {"loop", "send", "backoff"} \/ FetchPageReturned

\* The outcome of the attempt made by this step.
NewOutcome == outcomes'[Len(outcomes')]

\* C16: request_count grows by exactly one on each attempt of fetch_page on
\* which a response was received, whatever its status, and is left unchanged by
\* an attempt whose GET raised a timeout, a connection error or another
\* exception, and by every other step; so it equals the number of responses
\* received, not the number of attempts started.
C16_CountsResponsesReceived ==
    /\ request_count = 0
    /\ [](InFetchPage => request_count = entry_count + ResponsesReceived)
    /\ [][IF Len(outcomes') = Len(outcomes) + 1
          THEN IF NewOutcome.exc = "none"
               THEN /\ NewOutcome.status \in StatusCodes
                    /\ request_count' = request_count + 1
               ELSE /\ NewOutcome.exc \in GetExceptions
                    /\ request_count' = request_count
          ELSE request_count' = request_count]_vars

\* A second call entered with a count of 2: a connection error, then a 500;
\* three responses were received in four attempts.
C16_Witness ==
    /\ FetchPageReturned
    /\ calls = 2
    /\ entry_count = 2
    /\ Len(outcomes) = 2
    /\ outcomes[1].exc = "ConnectionError"
    /\ outcomes[2].exc = "none"
    /\ outcomes[2].status = 500
    /\ request_count = 3

====
